---- MODULE Spec2Model ----
(***************************************************************************)
(* Model of ilkit/util/buffer.py: the replay containers TransitionBuffer   *)
(* (five fields per row) and DAggerBuffer (two fields per row).            *)
(*                                                                         *)
(* A tensor / ndarray / python scalar is a record [shape, data]: shape is  *)
(* the tuple of dimensions (<<>> for a scalar) and data the flat sequence  *)
(* of its elements.  A storage array self.buffers[i] of shape              *)
(* (n,) + row_shape is the sequence of its n rows, each row the flat data  *)
(* of one entry; its row shape is fixed by clear().                        *)
(***************************************************************************)
EXTENDS Integers, Sequences, FiniteSets, TLC

VARIABLES
    cls,            \* which class the caller constructed
    buffer_size_arg,\* the constructor's buffer_size argument (-1: not specified)
    buffer_size,    \* self.buffer_size (after line 31 / 150)
    action_dtype,   \* self.action_dtype: "int64" or "float32"
    buffers,        \* TransitionBuffer.buffers: 5 storage arrays
    ptr,            \* TransitionBuffer.ptr
    size,           \* TransitionBuffer.size
    total_size,     \* TransitionBuffer.total_size
    d_buffers,      \* DAggerBuffer.buffers: 2 storage arrays
    d_ptr,          \* DAggerBuffer.ptr
    d_size,         \* DAggerBuffer.size
    d_total_size,   \* DAggerBuffer.total_size
    hist,           \* history: payloads of the rows inserted (insert_transition returned) since the last clear
    failed,         \* history: some call raised since the last clear
    lastop,         \* history: the last call made (name, arguments that select a case, outcome)
    ret             \* the value returned by the last call (sample), else <<>>

vars == <<cls, buffer_size_arg, buffer_size, action_dtype, buffers, ptr, size, total_size,
          d_buffers, d_ptr, d_size, d_total_size, hist, failed, lastop, ret>>

tvars == <<buffers, ptr, size, total_size>>
dvars == <<d_buffers, d_ptr, d_size, d_total_size>>
cfgvars == <<cls, buffer_size_arg, buffer_size, action_dtype>>

----------------------------------------------------------------------------
(* Bounds *)

MaxCap == 2          \* largest finite buffer_size argument
MaxBatch == 2        \* most rows in one batch / dataset

(* sys.maxsize is 2^63 - 1 on a 64-bit build; TLC's integers are 32 bits  *)
(* wide, so the model takes 2^31 - 1, which total_size (at most           *)
(* InsertLimit) stays just as far below.                                  *)
SysMaxsize == 2147483647

\* payloads of the rows the caller inserts
Values == {0, 1}

Min(a, b) == IF a <= b THEN a ELSE b

----------------------------------------------------------------------------
(* Tensors *)

Tensor(shape, data) == [shape |-> shape, data |-> data]

Scalar(v) == Tensor(<<>>, <<v>>)
Vec1(v) == Tensor(<<1>>, <<v>>)
Vec2(v, w) == Tensor(<<2>>, <<v, w>>)

\* [x] : a python list around one item adds a leading dimension of 1
list1(x) == Tensor(<<1>> \o x.shape, x.data)

\* np.array(x, dtype=np.float32) / np.array(x, dtype=np.int64) of integer-valued
\* data keeps shape and values
np_array(x) == Tensor(x.shape, x.data)

\* np.array([done], dtype=np.float32): a bool becomes 1.0 or 0.0
np_array_of_bool(x) == Tensor(x.shape, [i \in DOMAIN x.data |-> IF x.data[i] THEN 1 ELSE 0])

\* th.unsqueeze(t, dim=0)
unsqueeze(t) == Tensor(<<1>> \o t.shape, t.data)

state_shape == <<1>>
action_shape == <<1>>

RECURSIVE StripOnes(_)
StripOnes(s) == IF Len(s) > 0 /\ s[1] = 1 THEN StripOnes(Tail(s)) ELSE s

\* th.cat((buffer, t), dim=0) with buffer of shape (n,) + rowshape succeeds iff
\* t has the same number of dimensions and the same sizes outside dim 0
CatOk(rowshape, t) == Len(t.shape) = Len(rowshape) + 1 /\ Tail(t.shape) = rowshape

\* buffer[ptr] = t : leading dimensions of size 1 are dropped from t, and the
\* rest must broadcast to the row's shape
SetOk(rowshape, t) ==
    LET s == StripOnes(t.shape)
        off == Len(rowshape) - Len(s)
    IN  /\ off >= 0
        /\ \A k \in 1..Len(s) : s[k] = rowshape[off + k] \/ s[k] = 1

Numel(shape) == IF Len(shape) = 0 THEN 1 ELSE shape[1]

\* the row written by buffer[ptr] = t (row shapes here have at most one dimension)
Broadcast(rowshape, t) ==
    IF Len(t.data) = Numel(rowshape) THEN t.data
    ELSE [k \in 1..Numel(rowshape) |-> t.data[1]]

\* the optional argument batch_size: None, or <<b>> for the integer b
None == <<>>

\* python's seq[:b]
Slice(seq, b) ==
    IF b >= 0 THEN SubSeq(seq, 1, Min(b, Len(seq)))
    ELSE SubSeq(seq, 1, IF Len(seq) + b > 0 THEN Len(seq) + b ELSE 0)

----------------------------------------------------------------------------
(* Outcome of a call: the object as the call leaves it, whether it raised, *)
(* and which branch of insert_transition ran last.                         *)

Obj(b, p, s, t) == [buffers |-> b, ptr |-> p, size |-> s, total_size |-> t]

Return(self, branch) == [self |-> self, raised |-> FALSE, branch |-> branch]
Raise(self, branch) == [self |-> self, raised |-> TRUE, branch |-> branch]

----------------------------------------------------------------------------
(* TransitionBuffer *)

TransitionBuffer_init_buffer_size_nosentinel(arg) == arg

\* buffer_size if buffer_size != -1 else sys.maxsize
TransitionBuffer_init_buffer_size(arg) == IF arg # -1 THEN arg ELSE SysMaxsize

\* row shapes of the five storage arrays created by clear()
TransitionBuffer_row_shapes ==
    LET act == IF action_dtype = "int64" THEN <<1>> ELSE action_shape
    IN  <<state_shape, act, state_shape, <<1>>, <<1>>>>

TransitionBuffer_clear == Obj(<< <<>>, <<>>, <<>>, <<>>, <<>> >>, 0, 0, 0)

TransitionBuffer_update_pointer_nowrap(self, branch) ==
    IF buffer_size = 0 THEN Raise(self, branch)
    ELSE Return([self EXCEPT !.ptr = self.ptr + 1,
                             !.size = Min(self.size + 1, buffer_size),
                             !.total_size = self.total_size + 1], branch)

TransitionBuffer_update_pointer_append_counts(self, branch) ==
    IF buffer_size = 0 THEN Raise(self, branch)
    ELSE Return([self EXCEPT !.ptr = (self.ptr + 1) % buffer_size,
                             !.size = Min(self.size + 1, buffer_size),
                             !.total_size = IF branch = "append" THEN self.total_size + 1
                                            ELSE self.total_size], branch)

TransitionBuffer_update_pointer_late(self, branch) ==
    IF buffer_size = 0 THEN Raise(self, branch)
    ELSE Return([self EXCEPT !.ptr = IF self.total_size > buffer_size
                                     THEN (self.ptr + 1) % buffer_size ELSE self.ptr,
                             !.size = Min(self.size + 1, buffer_size),
                             !.total_size = self.total_size + 1], branch)

TransitionBuffer_update_pointer_nomin(self, branch) ==
    IF buffer_size = 0 THEN Raise(self, branch)
    ELSE Return([self EXCEPT !.ptr = (self.ptr + 1) % buffer_size,
                             !.size = self.size + 1,
                             !.total_size = self.total_size + 1], branch)

\* "update pointer and size"; the modulo raises ZeroDivisionError when buffer_size is 0
TransitionBuffer_update_pointer(self, branch) ==
    IF buffer_size = 0 THEN Raise(self, branch)
    ELSE Return([self EXCEPT !.ptr = (self.ptr + 1) % buffer_size,
                             !.size = Min(self.size + 1, buffer_size),
                             !.total_size = self.total_size + 1], branch)

\* for buffer, new_data in zip(self.buffers, new_transition): buffer[self.ptr] = new_data
\* the arrays are written one after the other, in place, from array i on
RECURSIVE TransitionBuffer_overwrite(_, _, _)
TransitionBuffer_overwrite(self, new_transition, i) ==
    IF i > Min(Len(self.buffers), Len(new_transition))
    THEN TransitionBuffer_update_pointer(self, "overwrite")
    ELSE IF /\ self.ptr < Len(self.buffers[i])
            /\ SetOk(TransitionBuffer_row_shapes[i], new_transition[i])
         THEN TransitionBuffer_overwrite(
                  [self EXCEPT !.buffers[i][self.ptr + 1] =
                       Broadcast(TransitionBuffer_row_shapes[i], new_transition[i])],
                  new_transition, i + 1)
         ELSE Raise(self, "overwrite")

\* self.buffers = [th.cat((self.buffers[i], th.unsqueeze(new_transition[i], dim=0)), dim=0) ...]
\* the list is built before it is assigned: a failing th.cat leaves self.buffers as it was
TransitionBuffer_append(self, new_transition) ==
    IF \A i \in 1..Len(new_transition) :
           CatOk(TransitionBuffer_row_shapes[i], unsqueeze(new_transition[i]))
    THEN TransitionBuffer_update_pointer(
             [self EXCEPT !.buffers = [i \in 1..Len(new_transition) |->
                                          Append(self.buffers[i], new_transition[i].data)]],
             "append")
    ELSE Raise(self, "append")

TransitionBuffer_insert_transition_strict(self, state, action, next_state, reward, done) ==
    LET st == np_array(state)
        nst == np_array(next_state)
        act == np_array(IF action_dtype = "int64" THEN list1(action) ELSE action)
        rew == np_array(list1(reward))
        dn == np_array_of_bool(list1(done))
        new_transition == <<st, act, nst, rew, dn>>
    IN  IF self.total_size < buffer_size
        THEN TransitionBuffer_append(self, new_transition)
        ELSE TransitionBuffer_overwrite(self, new_transition, 1)

TransitionBuffer_insert_transition(self, state, action, next_state, reward, done) ==
    LET st == np_array(state)
        nst == np_array(next_state)
        act == np_array(IF action_dtype = "int64" THEN list1(action) ELSE action)
        rew == np_array(list1(reward))
        dn == np_array_of_bool(list1(done))
        new_transition == <<st, act, nst, rew, dn>>
    IN  IF self.total_size <= buffer_size
        THEN TransitionBuffer_append(self, new_transition)
        ELSE TransitionBuffer_overwrite(self, new_transition, 1)

\* for i in range(states.shape[0]): self.insert_transition(states[i], actions[i], ...)
\* a batch array is the sequence of its rows; rows are inserted from row i on,
\* and the first call that raises ends the loop
RECURSIVE TransitionBuffer_insert_batch_from(_, _, _, _, _, _, _, _)
TransitionBuffer_insert_batch_from(self, states, actions, next_states, rewards, dones, i, branch) ==
    IF i > Len(states) THEN Return(self, branch)
    ELSE IF i > Len(actions) \/ i > Len(next_states) \/ i > Len(rewards) \/ i > Len(dones)
         THEN Raise(self, branch)
         ELSE LET r == TransitionBuffer_insert_transition(
                           self, states[i], actions[i], next_states[i], rewards[i], dones[i])
              IN  IF r.raised THEN r
                  ELSE TransitionBuffer_insert_batch_from(
                           r.self, states, actions, next_states, rewards, dones, i + 1, r.branch)

TransitionBuffer_insert_batch(self, states, actions, next_states, rewards, dones) ==
    TransitionBuffer_insert_batch_from(self, states, actions, next_states, rewards, dones, 1, "none")

DatasetKeys == {"observations", "actions", "next_observations", "rewards", "terminals"}

TransitionBuffer_insert_dataset_swapped(self, dataset) ==
    IF DatasetKeys \subseteq DOMAIN dataset
    THEN TransitionBuffer_insert_batch(self, dataset["next_observations"], dataset["actions"],
             dataset["observations"], dataset["rewards"], dataset["terminals"])
    ELSE Raise(self, "none")

\* a lookup whose KeyError is swallowed
TransitionBuffer_insert_dataset_swallow(self, dataset) ==
    IF DatasetKeys \subseteq DOMAIN dataset
    THEN TransitionBuffer_insert_batch(self, dataset["observations"], dataset["actions"],
             dataset["next_observations"], dataset["rewards"], dataset["terminals"])
    ELSE Return(self, "none")

\* dataset["observations"], ... raise KeyError on a missing key, before insert_batch is called
TransitionBuffer_insert_dataset(self, dataset) ==
    IF DatasetKeys \subseteq DOMAIN dataset
    THEN TransitionBuffer_insert_batch(self, dataset["observations"], dataset["actions"],
             dataset["next_observations"], dataset["rewards"], dataset["terminals"])
    ELSE Raise(self, "none")

TransitionBuffer_sample_idx_notrunc(self, batch_size, perm) ==
    [k \in 1..self.size |-> perm[k] - 1]

\* idx = list(range(self.size)); random.shuffle(idx) is the permutation perm of 1..size
\* (the identity when shuffle is false); idx[:batch_size] keeps the first batch_size
\* indices, or drops the last -batch_size ones when batch_size is negative
TransitionBuffer_sample_idx(self, batch_size, perm) ==
    LET idx == [k \in 1..self.size |-> perm[k] - 1]
    IN  IF batch_size = None THEN idx ELSE Slice(idx, batch_size[1])

\* [buffer[idx] for buffer in self.buffers]
\* every array but the first gathered in the reverse order
TransitionBuffer_sample_misaligned(self, batch_size, perm) ==
    LET idx == TransitionBuffer_sample_idx(self, batch_size, perm)
    IN  [i \in 1..Len(self.buffers) |->
            [k \in 1..Len(idx) |->
                self.buffers[i][idx[IF i = 1 THEN k ELSE Len(idx) + 1 - k] + 1]]]

TransitionBuffer_sample(self, batch_size, perm) ==
    LET idx == TransitionBuffer_sample_idx(self, batch_size, perm)
    IN  [i \in 1..Len(self.buffers) |-> [k \in 1..Len(idx) |-> self.buffers[i][idx[k] + 1]]]

----------------------------------------------------------------------------
(* DAggerBuffer *)

DAggerBuffer_init_buffer_size(arg) == IF arg # -1 THEN arg ELSE SysMaxsize

\* row shapes of the two storage arrays created by clear()
DAggerBuffer_row_shapes ==
    LET act == IF action_dtype = "int64" THEN <<1>> ELSE action_shape
    IN  <<state_shape, act>>

DAggerBuffer_clear == Obj(<< <<>>, <<>> >>, 0, 0, 0)

DAggerBuffer_update_pointer(self, branch) ==
    IF buffer_size = 0 THEN Raise(self, branch)
    ELSE Return([self EXCEPT !.ptr = (self.ptr + 1) % buffer_size,
                             !.size = Min(self.size + 1, buffer_size),
                             !.total_size = self.total_size + 1], branch)

RECURSIVE DAggerBuffer_overwrite(_, _, _)
DAggerBuffer_overwrite(self, new_transition, i) ==
    IF i > Min(Len(self.buffers), Len(new_transition))
    THEN DAggerBuffer_update_pointer(self, "overwrite")
    ELSE IF /\ self.ptr < Len(self.buffers[i])
            /\ SetOk(DAggerBuffer_row_shapes[i], new_transition[i])
         THEN DAggerBuffer_overwrite(
                  [self EXCEPT !.buffers[i][self.ptr + 1] =
                       Broadcast(DAggerBuffer_row_shapes[i], new_transition[i])],
                  new_transition, i + 1)
         ELSE Raise(self, "overwrite")

DAggerBuffer_append(self, new_transition) ==
    IF \A i \in 1..Len(new_transition) :
           CatOk(DAggerBuffer_row_shapes[i], unsqueeze(new_transition[i]))
    THEN DAggerBuffer_update_pointer(
             [self EXCEPT !.buffers = [i \in 1..Len(new_transition) |->
                                          Append(self.buffers[i], new_transition[i].data)]],
             "append")
    ELSE Raise(self, "append")

DAggerBuffer_insert_transition_strict(self, state, action) ==
    LET st == np_array(state)
        act == np_array(IF action_dtype = "int64" THEN list1(action) ELSE action)
        new_transition == <<st, act>>
    IN  IF self.total_size < buffer_size
        THEN DAggerBuffer_append(self, new_transition)
        ELSE DAggerBuffer_overwrite(self, new_transition, 1)

DAggerBuffer_insert_transition(self, state, action) ==
    LET st == np_array(state)
        act == np_array(IF action_dtype = "int64" THEN list1(action) ELSE action)
        new_transition == <<st, act>>
    IN  IF self.total_size <= buffer_size
        THEN DAggerBuffer_append(self, new_transition)
        ELSE DAggerBuffer_overwrite(self, new_transition, 1)

RECURSIVE DAggerBuffer_insert_batch_from(_, _, _, _, _)
DAggerBuffer_insert_batch_from(self, states, actions, i, branch) ==
    IF i > Len(states) THEN Return(self, branch)
    ELSE IF i > Len(actions) THEN Raise(self, branch)
         ELSE LET r == DAggerBuffer_insert_transition(self, states[i], actions[i])
              IN  IF r.raised THEN r
                  ELSE DAggerBuffer_insert_batch_from(r.self, states, actions, i + 1, r.branch)

DAggerBuffer_insert_batch(self, states, actions) ==
    DAggerBuffer_insert_batch_from(self, states, actions, 1, "none")

DAggerBuffer_sample_idx(self, batch_size, perm) ==
    LET idx == [k \in 1..self.size |-> perm[k] - 1]
    IN  IF batch_size = None THEN idx ELSE Slice(idx, batch_size[1])

DAggerBuffer_sample(self, batch_size, perm) ==
    LET idx == DAggerBuffer_sample_idx(self, batch_size, perm)
    IN  [i \in 1..Len(self.buffers) |-> [k \in 1..Len(idx) |-> self.buffers[i][idx[k] + 1]]]

----------------------------------------------------------------------------
(* Arguments the caller passes *)

\* One row of data carrying the payload v.  kind "ok" has the shapes the buffer
\* was built for; "state_scalar" passes a 0-d state, "action_wide" an action of
\* shape (2,), "next_state_wide" a next_state of shape (2,).
RowKinds == {"ok", "state_scalar", "action_wide"}

Row(v, kind) ==
    [state |-> CASE kind = "state_scalar" -> Scalar(v)
                 [] OTHER -> Vec1(v),
     action |-> CASE kind = "action_wide" -> Vec2(v, v)
                  [] OTHER -> IF action_dtype = "int64" THEN Scalar(v) ELSE Vec1(v),
     next_state |-> CASE kind = "next_state_wide" -> Vec2(v + 1, v + 1)
                      [] OTHER -> Vec1(v + 1),
     reward |-> Scalar(v),
     done |-> Scalar(v % 2 = 1)]

\* the rows the caller passes: a well-formed one per payload, and one per
\* malformed kind
Rows == {Row(v, "ok") : v \in Values} \cup {Row(1, kind) : kind \in RowKinds \ {"ok"}}

RowLists == UNION {[1..n -> Rows] : n \in 0..MaxBatch}

\* the batch arrays (one per field) holding the given rows
Column(rows, field) == [k \in 1..Len(rows) |-> rows[k][field]]

Dataset(rows) ==
    [key \in DatasetKeys |->
        CASE key = "observations" -> Column(rows, "state")
          [] key = "actions" -> Column(rows, "action")
          [] key = "next_observations" -> Column(rows, "next_state")
          [] key = "rewards" -> Column(rows, "reward")
          [] key = "terminals" -> Column(rows, "done")]

\* the dictionary without one of its keys
Without(dataset, key) == [k \in (DOMAIN dataset) \ {key} |-> dataset[k]]

\* the datasets a caller makes of the rows: the whole one, one without the key
\* looked up first and one without the key looked up last
Datasets(rows) ==
    {Dataset(rows)} \cup {Without(Dataset(rows), key) : key \in {"observations", "terminals"}}

BatchSizes == {None} \cup {<<b>> : b \in 0..(MaxCap + 1)}

Identity(n) == [k \in 1..n |-> k]

Shuffles_with_replacement(n, shuffle) == IF shuffle THEN [1..n -> 1..n] ELSE {Identity(n)}

\* the orders random.shuffle can leave idx in
Shuffles(n, shuffle) == IF shuffle THEN Permutations(1..n) ELSE {Identity(n)}

\* n: the number of rows passed to an insertion; for clear, total_size before the call
Op(op, raised, branch, n, batch_size, shuffle) ==
    [op |-> op, raised |-> raised, branch |-> branch, n |-> n,
     batch_size |-> batch_size, shuffle |-> shuffle]

----------------------------------------------------------------------------
(* State machine *)

\* rows inserted between two clears: enough for a buffer of capacity C to be
\* overwritten in every slot (2C + 1), and MaxCap + 1 for an unbounded one
InsertLimit == IF buffer_size_arg # -1 THEN 2 * buffer_size + 1 ELSE MaxCap + 1

\* the batches and datasets the caller passes in the current state
Bundles == {rows \in RowLists : Len(hist) + Len(rows) <= InsertLimit}

TSelf == Obj(buffers, ptr, size, total_size)

Init ==
    /\ cls \in {"TransitionBuffer", "DAggerBuffer"}
    /\ buffer_size_arg \in {-1} \cup (1..MaxCap)
    /\ buffer_size = IF cls = "TransitionBuffer"
                     THEN TransitionBuffer_init_buffer_size(buffer_size_arg)
                     ELSE DAggerBuffer_init_buffer_size(buffer_size_arg)
    /\ action_dtype \in {"int64", "float32"}
    /\ buffers = TransitionBuffer_clear.buffers
    /\ ptr = TransitionBuffer_clear.ptr
    /\ size = TransitionBuffer_clear.size
    /\ total_size = TransitionBuffer_clear.total_size
    /\ d_buffers = DAggerBuffer_clear.buffers
    /\ d_ptr = DAggerBuffer_clear.ptr
    /\ d_size = DAggerBuffer_clear.size
    /\ d_total_size = DAggerBuffer_clear.total_size
    /\ hist = <<>>
    /\ failed = FALSE
    /\ lastop = Op("init", FALSE, "none", 0, None, FALSE)
    /\ ret = <<>>

\* the caller's variables after a call on the TransitionBuffer with outcome r,
\* which was given the rows `rows`
TAfter(r, rows, op) ==
    /\ buffers' = r.self.buffers
    /\ ptr' = r.self.ptr
    /\ size' = r.self.size
    /\ total_size' = r.self.total_size
    /\ hist' = hist \o [k \in 1..(r.self.total_size - total_size) |-> rows[k].reward.data[1]]
    /\ failed' = (failed \/ r.raised)
    /\ lastop' = Op(op, r.raised, r.branch, Len(rows), None, FALSE)
    /\ ret' = <<>>
    /\ UNCHANGED <<cfgvars, dvars>>

InsertTransition ==
    /\ cls = "TransitionBuffer"
    /\ Len(hist) < InsertLimit
    /\ \E row \in Rows :
          TAfter(TransitionBuffer_insert_transition(
                     TSelf, row.state, row.action, row.next_state, row.reward, row.done),
                 <<row>>, "insert_transition")

InsertBatch ==
    /\ cls = "TransitionBuffer"
    /\ \E rows \in Bundles :
          TAfter(TransitionBuffer_insert_batch(TSelf,
                        Column(rows, "state"), Column(rows, "action"),
                        Column(rows, "next_state"), Column(rows, "reward"),
                        Column(rows, "done")),
                    rows, "insert_batch")

InsertDataset ==
    /\ cls = "TransitionBuffer"
    /\ \E rows \in Bundles :
          \E dataset \in Datasets(rows) :
             TAfter(TransitionBuffer_insert_dataset(TSelf, dataset),
                    rows, "insert_dataset")

Sample_truncating ==
    /\ cls = "TransitionBuffer"
    /\ \E batch_size \in BatchSizes, shuffle \in BOOLEAN :
          \E perm \in Shuffles(size, shuffle) :
             /\ ret' = TransitionBuffer_sample(TSelf, batch_size, perm)
             /\ size' = Len(TransitionBuffer_sample_idx(TSelf, batch_size, perm))
             /\ lastop' = Op("sample", FALSE, "none", 0, batch_size, shuffle)
    /\ UNCHANGED <<cfgvars, buffers, ptr, total_size, dvars, hist, failed>>

Sample ==
    /\ cls = "TransitionBuffer"
    /\ \E batch_size \in BatchSizes, shuffle \in BOOLEAN :
          \E perm \in Shuffles(size, shuffle) :
             /\ ret' = TransitionBuffer_sample(TSelf, batch_size, perm)
             /\ lastop' = Op("sample", FALSE, "none", 0, batch_size, shuffle)
    /\ UNCHANGED <<cfgvars, tvars, dvars, hist, failed>>

Clear_keeps_total ==
    /\ cls = "TransitionBuffer"
    /\ buffers' = TransitionBuffer_clear.buffers
    /\ ptr' = TransitionBuffer_clear.ptr
    /\ size' = TransitionBuffer_clear.size
    /\ hist' = <<>>
    /\ failed' = FALSE
    /\ lastop' = Op("clear", FALSE, "none", total_size, None, FALSE)
    /\ ret' = <<>>
    /\ UNCHANGED <<cfgvars, total_size, dvars>>

Clear ==
    /\ cls = "TransitionBuffer"
    /\ buffers' = TransitionBuffer_clear.buffers
    /\ ptr' = TransitionBuffer_clear.ptr
    /\ size' = TransitionBuffer_clear.size
    /\ total_size' = TransitionBuffer_clear.total_size
    /\ hist' = <<>>
    /\ failed' = FALSE
    /\ lastop' = Op("clear", FALSE, "none", total_size, None, FALSE)
    /\ ret' = <<>>
    /\ UNCHANGED <<cfgvars, dvars>>

DSelf == Obj(d_buffers, d_ptr, d_size, d_total_size)

\* the caller's variables after a call on the DAggerBuffer with outcome r
DAfter(r, rows, op) ==
    /\ d_buffers' = r.self.buffers
    /\ d_ptr' = r.self.ptr
    /\ d_size' = r.self.size
    /\ d_total_size' = r.self.total_size
    /\ hist' = hist \o [k \in 1..(r.self.total_size - d_total_size) |-> rows[k].reward.data[1]]
    /\ failed' = (failed \/ r.raised)
    /\ lastop' = Op(op, r.raised, r.branch, Len(rows), None, FALSE)
    /\ ret' = <<>>
    /\ UNCHANGED <<cfgvars, tvars>>

DInsertTransition ==
    /\ cls = "DAggerBuffer"
    /\ Len(hist) < InsertLimit
    /\ \E row \in Rows :
          DAfter(DAggerBuffer_insert_transition(DSelf, row.state, row.action),
                 <<row>>, "insert_transition")

DInsertBatch ==
    /\ cls = "DAggerBuffer"
    /\ \E rows \in Bundles :
          DAfter(DAggerBuffer_insert_batch(DSelf,
                        Column(rows, "state"), Column(rows, "action")),
                    rows, "insert_batch")

DSample ==
    /\ cls = "DAggerBuffer"
    /\ \E batch_size \in BatchSizes, shuffle \in BOOLEAN :
          \E perm \in Shuffles(d_size, shuffle) :
             /\ ret' = DAggerBuffer_sample(DSelf, batch_size, perm)
             /\ lastop' = Op("sample", FALSE, "none", 0, batch_size, shuffle)
    /\ UNCHANGED <<cfgvars, tvars, dvars, hist, failed>>

DClear ==
    /\ cls = "DAggerBuffer"
    /\ d_buffers' = DAggerBuffer_clear.buffers
    /\ d_ptr' = DAggerBuffer_clear.ptr
    /\ d_size' = DAggerBuffer_clear.size
    /\ d_total_size' = DAggerBuffer_clear.total_size
    /\ hist' = <<>>
    /\ failed' = FALSE
    /\ lastop' = Op("clear", FALSE, "none", d_total_size, None, FALSE)
    /\ ret' = <<>>
    /\ UNCHANGED <<cfgvars, tvars>>

Next ==
    \/ InsertTransition
    \/ InsertBatch
    \/ InsertDataset
    \/ Sample
    \/ Clear
    \/ DInsertTransition
    \/ DInsertBatch
    \/ DSample
    \/ DClear

Spec == Init /\ [][Next]_vars

\* the insertions and clears alone: sample changes none of the buffer's state
NextInsert ==
    \/ InsertTransition
    \/ InsertBatch
    \/ InsertDataset
    \/ Clear
    \/ DInsertTransition
    \/ DInsertBatch
    \/ DClear

SpecInsert == Init /\ [][NextInsert]_vars

----------------------------------------------------------------------------
(* A TransitionBuffer and a DAggerBuffer of the same capacity, given the same
   calls: the DAggerBuffer gets the state and the action of every row *)

\* the rows of the calls: next_state is a field of the TransitionBuffer alone
MirrorRows == Rows \cup {Row(1, "next_state_wide")}

MirrorRowLists == UNION {[1..n -> MirrorRows] : n \in 0..MaxBatch}

MirrorBundles ==
    {rows \in MirrorRowLists : /\ total_size + Len(rows) <= InsertLimit
                               /\ d_total_size + Len(rows) <= InsertLimit}

InitMirror ==
    /\ cls = "TransitionBuffer, DAggerBuffer"
    /\ buffer_size_arg \in {-1} \cup (1..MaxCap)
    /\ buffer_size = TransitionBuffer_init_buffer_size(buffer_size_arg)
    /\ buffer_size = DAggerBuffer_init_buffer_size(buffer_size_arg)
    /\ action_dtype \in {"int64", "float32"}
    /\ buffers = TransitionBuffer_clear.buffers
    /\ ptr = TransitionBuffer_clear.ptr
    /\ size = TransitionBuffer_clear.size
    /\ total_size = TransitionBuffer_clear.total_size
    /\ d_buffers = DAggerBuffer_clear.buffers
    /\ d_ptr = DAggerBuffer_clear.ptr
    /\ d_size = DAggerBuffer_clear.size
    /\ d_total_size = DAggerBuffer_clear.total_size
    /\ hist = <<>>
    /\ failed = FALSE
    /\ lastop = Op("init", FALSE, "none", 0, None, FALSE)
    /\ ret = <<>>

\* the caller's variables after the call on the TransitionBuffer had outcome rt
\* and the call on the DAggerBuffer outcome rd; hist and lastop follow the
\* TransitionBuffer
MirrorAfter(rt, rd, rows, op) ==
    /\ buffers' = rt.self.buffers
    /\ ptr' = rt.self.ptr
    /\ size' = rt.self.size
    /\ total_size' = rt.self.total_size
    /\ d_buffers' = rd.self.buffers
    /\ d_ptr' = rd.self.ptr
    /\ d_size' = rd.self.size
    /\ d_total_size' = rd.self.total_size
    /\ hist' = hist \o [k \in 1..(rt.self.total_size - total_size) |-> rows[k].reward.data[1]]
    /\ failed' = (failed \/ rt.raised \/ rd.raised)
    /\ lastop' = Op(op, rt.raised, rt.branch, Len(rows), None, FALSE)
    /\ ret' = <<>>
    /\ UNCHANGED cfgvars

MirrorInsertTransition ==
    /\ total_size < InsertLimit
    /\ d_total_size < InsertLimit
    /\ \E row \in MirrorRows :
          MirrorAfter(TransitionBuffer_insert_transition(
                          TSelf, row.state, row.action, row.next_state, row.reward, row.done),
                      DAggerBuffer_insert_transition(DSelf, row.state, row.action),
                      <<row>>, "insert_transition")

MirrorInsertBatch ==
    \E rows \in MirrorBundles :
        MirrorAfter(TransitionBuffer_insert_batch(TSelf,
                        Column(rows, "state"), Column(rows, "action"),
                        Column(rows, "next_state"), Column(rows, "reward"),
                        Column(rows, "done")),
                    DAggerBuffer_insert_batch(DSelf,
                        Column(rows, "state"), Column(rows, "action")),
                    rows, "insert_batch")

MirrorClear ==
    /\ buffers' = TransitionBuffer_clear.buffers
    /\ ptr' = TransitionBuffer_clear.ptr
    /\ size' = TransitionBuffer_clear.size
    /\ total_size' = TransitionBuffer_clear.total_size
    /\ d_buffers' = DAggerBuffer_clear.buffers
    /\ d_ptr' = DAggerBuffer_clear.ptr
    /\ d_size' = DAggerBuffer_clear.size
    /\ d_total_size' = DAggerBuffer_clear.total_size
    /\ hist' = <<>>
    /\ failed' = FALSE
    /\ lastop' = Op("clear", FALSE, "none", total_size, None, FALSE)
    /\ ret' = <<>>
    /\ UNCHANGED cfgvars

NextMirror ==
    \/ MirrorInsertTransition
    \/ MirrorInsertBatch
    \/ MirrorClear

SpecMirror == InitMirror /\ [][NextMirror]_vars

----------------------------------------------------------------------------
(* Vocabulary of the properties *)

\* the object the caller constructed
CurSelf == IF cls = "TransitionBuffer" THEN TSelf ELSE DSelf

NFields == Len(CurSelf.buffers)

Bounded == buffer_size_arg # -1

\* what the row of data with payload v is stored as, one row per field
StoredRow(v) ==
    << <<v>>, <<v>>, <<v + 1>>, <<v>>, <<IF v % 2 = 1 THEN 1 ELSE 0>> >>

\* well-formed rows of data with the payloads vs
OkRows(vs) == [k \in 1..Len(vs) |-> Row(vs[k], "ok")]

\* calls of insert_transition made one after the other with rows i, i+1, ...,
\* as straight-line code makes them: the first call that raises ends the sequence
RECURSIVE SequentialInserts(_, _, _)
SequentialInserts(self, rows, i) ==
    IF i > Len(rows) THEN Return(self, "none")
    ELSE LET r == IF cls = "TransitionBuffer"
                  THEN TransitionBuffer_insert_transition(self, rows[i].state, rows[i].action,
                           rows[i].next_state, rows[i].reward, rows[i].done)
                  ELSE DAggerBuffer_insert_transition(self, rows[i].state, rows[i].action)
         IN  IF r.raised THEN r ELSE SequentialInserts(r.self, rows, i + 1)

----------------------------------------------------------------------------
(* Properties *)

\* C1 (overwrite correctness): after C + k successful insertions (k >= 1, no
\* failed call) into an empty buffer of capacity C, count = C,
\* total_inserted = C + k, and slots 0..C-1 hold the C most recent items, the
\* m-th inserted item (counted from 0) in slot m mod C, so the oldest of them
\* is in slot k mod C.
C1_OverwriteCorrectness ==
    (Bounded /\ ~failed /\ Len(hist) > buffer_size) =>
        LET C == buffer_size
            k == Len(hist) - C
        IN  /\ CurSelf.size = C
            /\ CurSelf.total_size = C + k
            /\ \A m \in k..(C + k - 1) : \A i \in 1..NFields :
                  /\ Len(CurSelf.buffers[i]) > m % C
                  /\ CurSelf.buffers[i][(m % C) + 1] = StoredRow(hist[m + 1])[i]

\* C2 (capacity invariant): in every reachable state
\* count = min(total_inserted, capacity), and count = total_inserted when the
\* capacity is unbounded.
C2_CapacityInvariant ==
    /\ CurSelf.size = Min(CurSelf.total_size, buffer_size)
    /\ ~Bounded => CurSelf.size = CurSelf.total_size

C2_Witness ==
    /\ Bounded
    /\ CurSelf.total_size > buffer_size
    /\ CurSelf.size = buffer_size
    /\ failed

\* C3 (storage length invariant): in every reachable state all storage arrays
\* have the same leading length, and that length is count.
C3_StorageLength ==
    \A i \in 1..NFields : Len(CurSelf.buffers[i]) = CurSelf.size

\* C4 (sample completeness): sample(shuffle=False) without batch_size returns
\* the entries of slots 0..count-1 in slot order, and these are all the entries
\* held in storage.
C4_SampleCompleteness ==
    (lastop.op = "sample" /\ ~lastop.shuffle /\ lastop.batch_size = None) =>
        /\ Len(ret) = NFields
        /\ \A i \in 1..NFields :
              /\ Len(ret[i]) = CurSelf.size
              /\ \A k \in 1..CurSelf.size : ret[i][k] = CurSelf.buffers[i][k]
              /\ Len(ret[i]) = Len(CurSelf.buffers[i])

\* C5 (sample size bound): sample(batch_size=b) with b >= 0 returns exactly
\* min(b, count) entries in every field, shuffled or not.
C5_SampleSizeBound ==
    (lastop.op = "sample" /\ lastop.batch_size # None /\ lastop.batch_size[1] >= 0) =>
        /\ Len(ret) = NFields
        /\ \A i \in 1..NFields : Len(ret[i]) = Min(lastop.batch_size[1], CurSelf.size)

C5_Witness ==
    /\ lastop.op = "sample"
    /\ lastop.batch_size # None
    /\ lastop.shuffle
    /\ CurSelf.size > 0
    /\ lastop.batch_size[1] > CurSelf.size
    /\ Len(ret[1]) = CurSelf.size

\* C6 (sample is read-only): a call of sample, whatever batch_size and shuffle,
\* leaves storage, write_cursor, count and total_inserted as they were.
C6_SampleReadOnly ==
    [][lastop'.op = "sample" => UNCHANGED <<tvars, dvars>>]_vars

C6_Witness ==
    /\ lastop.op = "sample"
    /\ lastop.shuffle
    /\ lastop.batch_size # None
    /\ CurSelf.total_size > buffer_size
    /\ Len(ret[1]) > 0

\* a freshly constructed buffer of the caller's class
Fresh == Obj([i \in 1..NFields |-> <<>>], 0, 0, 0)

\* C7 (clear resets fully): after clear() every storage array has length 0,
\* write_cursor = count = total_inserted = 0, sample returns zero-length
\* containers, and the buffer takes subsequent insertions as a fresh one does.
C7_ClearResets ==
    lastop.op = "clear" =>
        /\ \A i \in 1..NFields : Len(CurSelf.buffers[i]) = 0
        /\ CurSelf.ptr = 0
        /\ CurSelf.size = 0
        /\ CurSelf.total_size = 0
        /\ \A batch_size \in BatchSizes, shuffle \in BOOLEAN :
              \A perm \in Shuffles(CurSelf.size, shuffle) :
                 LET out == IF cls = "TransitionBuffer"
                            THEN TransitionBuffer_sample(CurSelf, batch_size, perm)
                            ELSE DAggerBuffer_sample(CurSelf, batch_size, perm)
                 IN  Len(out) = NFields /\ \A i \in 1..NFields : Len(out[i]) = 0
        /\ \A rows \in RowLists :
              SequentialInserts(CurSelf, rows, 1) = SequentialInserts(Fresh, rows, 1)

\* clear() was called on a buffer that had wrapped
C7_Witness ==
    /\ lastop.op = "clear"
    /\ Bounded
    /\ lastop.n > buffer_size + 1

\* C8 (dataset ingestion equivalence): from any buffer state, insert_dataset on
\* a bundle of N rows, and insert_batch on the same rows, leave the buffer in
\* the state that N insert_transition calls made one after the other with the
\* same rows leave it in.
C8_DatasetEquivalence ==
    \A rows \in Bundles :
        LET seq == SequentialInserts(CurSelf, rows, 1).self
        IN  IF cls = "TransitionBuffer"
            THEN /\ TransitionBuffer_insert_dataset(TSelf, Dataset(rows)).self = seq
                 /\ TransitionBuffer_insert_batch(TSelf,
                        Column(rows, "state"), Column(rows, "action"),
                        Column(rows, "next_state"), Column(rows, "reward"),
                        Column(rows, "done")).self = seq
            ELSE DAggerBuffer_insert_batch(DSelf,
                     Column(rows, "state"), Column(rows, "action")).self = seq

\* insert_dataset has inserted a bundle of two rows into a buffer that overwrites
C8_Witness ==
    /\ lastop.op = "insert_dataset"
    /\ lastop.n = 2
    /\ ~lastop.raised
    /\ lastop.branch = "overwrite"
    /\ hist[Len(hist)] # hist[Len(hist) - 1]

\* C9 (batch partial failure): when insert_batch fails at row i, storage,
\* write_cursor, count and total_inserted are exactly what the insertions of
\* rows 0..i-1 produce, and no later row is inserted.
C9_BatchPartialFailure ==
    [][(lastop'.op = "insert_batch" /\ lastop'.raised) =>
          /\ Len(hist') - Len(hist) < lastop'.n
          /\ CurSelf' = SequentialInserts(CurSelf,
                            OkRows(SubSeq(hist', Len(hist) + 1, Len(hist'))), 1).self]_vars

\* C10 (unbounded buffers never wrap): in a buffer constructed without a
\* capacity the overwrite branch is never taken, storage is the sequence of the
\* inserted rows in insertion order, and count = total_inserted = the number of
\* insertions since the last clear.
C10_UnboundedNeverWraps ==
    ~Bounded =>
        /\ lastop.branch # "overwrite"
        /\ CurSelf.size = Len(hist)
        /\ CurSelf.total_size = Len(hist)
        /\ \A i \in 1..NFields :
              CurSelf.buffers[i] = [k \in 1..Len(hist) |-> StoredRow(hist[k])[i]]

C10_Witness ==
    /\ ~Bounded
    /\ Len(hist) > MaxCap
    /\ lastop.op = "insert_transition"
    /\ ~lastop.raised
    /\ failed

\* the index list sample builds on the caller's buffer
SampleIdx(batch_size, perm) ==
    IF cls = "DAggerBuffer" THEN DAggerBuffer_sample_idx(DSelf, batch_size, perm)
    ELSE TransitionBuffer_sample_idx(TSelf, batch_size, perm)

\* C11 (shuffle is a permutation): the index list of sample(shuffle=True) holds
\* indices of 0..count-1 without repeats, and all of them when batch_size is None.
C11_ShuffleIsPermutation ==
    \A batch_size \in BatchSizes : \A perm \in Shuffles(CurSelf.size, TRUE) :
        LET idx == SampleIdx(batch_size, perm)
        IN  /\ \A k \in 1..Len(idx) : idx[k] \in 0..(CurSelf.size - 1)
            /\ \A j, k \in 1..Len(idx) : j # k => idx[j] # idx[k]
            /\ batch_size = None => {idx[k] : k \in 1..Len(idx)} = 0..(CurSelf.size - 1)

\* a shuffled sample of the whole buffer came back in another order than the slots'
C11_Witness ==
    /\ lastop.op = "sample"
    /\ lastop.shuffle
    /\ lastop.batch_size = None
    /\ CurSelf.size >= 2
    /\ Len(ret[1]) = CurSelf.size
    /\ ret[1] # SubSeq(CurSelf.buffers[1], 1, CurSelf.size)

\* the DAggerBuffer's state and action storage and its counters equal the
\* TransitionBuffer's
MirrorEq(t, d) ==
    /\ d.buffers[1] = t.buffers[1]
    /\ d.buffers[2] = t.buffers[2]
    /\ d.ptr = t.ptr
    /\ d.size = t.size
    /\ d.total_size = t.total_size

C13_DatasetMissingField ==
    cls = "TransitionBuffer" =>
        \A rows \in Bundles : \A key \in DatasetKeys :
            LET r == TransitionBuffer_insert_dataset(TSelf, Without(Dataset(rows), key))
            IN  /\ r.raised
                /\ r.self = TSelf

\* a dataset of two rows with a key missing was refused by a buffer holding rows
C13_Witness ==
    /\ lastop.op = "insert_dataset"
    /\ lastop.raised
    /\ lastop.branch = "none"
    /\ lastop.n = 2
    /\ total_size > 0
    /\ size = Len(hist)

\* how many of the rows sample can return hold the transition of payload v
VisibleCount(self, v) ==
    Cardinality({j \in 1..self.size :
                    \A i \in 1..Len(self.buffers) : self.buffers[i][j] = StoredRow(v)[i]})

\* how many of the last n insertions of h carried the payload v
RecentCount(h, n, v) == Cardinality({m \in 1..Len(h) : m > Len(h) - n /\ h[m] = v})

\* C14 (FIFO eviction): on a bounded buffer holding capacity entries, the most
\* recent capacity insertions, a successful insert_transition drops the entry
\* inserted earliest and makes the new entry visible: the visible entries are
\* again the most recent capacity insertions.
C14_FifoEviction ==
    [][(/\ lastop'.op = "insert_transition"
        /\ ~lastop'.raised
        /\ Bounded
        /\ ~failed'
        /\ CurSelf.size = buffer_size
        /\ \A v \in Values : VisibleCount(CurSelf, v) = RecentCount(hist, buffer_size, v))
       => \A v \in Values : VisibleCount(CurSelf', v) = RecentCount(hist', buffer_size, v)]_vars

\* C15 (step semantics of insert_transition): a successful insert_transition
\* made at total_size = t appends one row to every array when t <= buffer_size
\* and otherwise replaces exactly the row at ptr, the lengths staying the same;
\* either way ptr becomes (ptr + 1) mod buffer_size, size min(size + 1,
\* buffer_size) and total_size t + 1.
C15_StepSemantics ==
    [][(lastop'.op = "insert_transition" /\ ~lastop'.raised) =>
          LET self == CurSelf
              new == CurSelf'
              row == StoredRow(hist'[Len(hist')])
              t == self.total_size
          IN  /\ IF t <= buffer_size
                 THEN \A i \in 1..NFields :
                          new.buffers[i] = Append(self.buffers[i], row[i])
                 ELSE \A i \in 1..NFields :
                          /\ Len(new.buffers[i]) = Len(self.buffers[i])
                          /\ self.ptr + 1 \in 1..Len(self.buffers[i])
                          /\ \A j \in 1..Len(self.buffers[i]) :
                                 new.buffers[i][j] = IF j = self.ptr + 1 THEN row[i]
                                                     ELSE self.buffers[i][j]
              /\ new.ptr = (self.ptr + 1) % buffer_size
              /\ new.size = Min(self.size + 1, buffer_size)
              /\ new.total_size = t + 1]_vars

\* an insert_transition replaced a row by one of another payload
C15_Witness ==
    /\ lastop.op = "insert_transition"
    /\ ~lastop.raised
    /\ lastop.branch = "overwrite"
    /\ hist[Len(hist)] = 1
    /\ VisibleCount(CurSelf, 0) >= 1
    /\ VisibleCount(CurSelf, 1) >= 1

\* C16 as stated (cursor meaningful only after fill): the write cursor is 0 as
\* long as total_size <= buffer_size.
C16_CursorStaysZero == CurSelf.total_size <= buffer_size => CurSelf.ptr = 0

\* C16 amended: every insertion call moves the write cursor by one modulo
\* buffer_size for each row it inserts, in the append phase as afterwards, and
\* a call that inserts nothing leaves it where it was.
C16_CursorAdvancesAlways ==
    [][lastop'.op \in {"insert_transition", "insert_batch", "insert_dataset"} =>
          CurSelf'.ptr = (CurSelf.ptr + (CurSelf'.total_size - CurSelf.total_size)) % buffer_size]_vars

\* a bounded buffer in its append phase whose cursor has left 0
C16_Witness ==
    /\ Bounded
    /\ lastop.op = "insert_transition"
    /\ ~lastop.raised
    /\ lastop.branch = "append"
    /\ CurSelf.total_size < buffer_size
    /\ CurSelf.ptr = CurSelf.total_size
    /\ CurSelf.ptr > 0

\* C17 (total_inserted is monotone): a successful insert_transition, appending
\* or overwriting, adds exactly 1 to total_size, sample leaves it as it is, and
\* it decreases only by a clear, which sets it to 0.
C17_TotalMonotone ==
    [][/\ (lastop'.op = "insert_transition" /\ ~lastop'.raised)
              => CurSelf'.total_size = CurSelf.total_size + 1
       /\ lastop'.op = "sample" => CurSelf'.total_size = CurSelf.total_size
       /\ CurSelf'.total_size < CurSelf.total_size
              => (lastop'.op = "clear" /\ CurSelf'.total_size = 0)]_vars

\* an overwriting insert_transition was counted
C17_Witness ==
    /\ Bounded
    /\ lastop.op = "insert_transition"
    /\ ~lastop.raised
    /\ lastop.branch = "overwrite"
    /\ CurSelf.total_size = 2 * buffer_size + 1

C19_FailingInsertAtomic ==
    [][(lastop'.op = "insert_transition" /\ lastop'.raised) => UNCHANGED <<tvars, dvars>>]_vars

\* C20 (cursor invariant): in every reachable state the write cursor is
\* total_size mod buffer_size, so it lies in 0..buffer_size-1; and once
\* insertions overwrite (total_size > buffer_size) the slot at the cursor exists
\* in every array and lies inside the sampled range 0..size-1.
C20_CursorInvariant ==
    /\ CurSelf.ptr = CurSelf.total_size % buffer_size
    /\ 0 <= CurSelf.ptr
    /\ CurSelf.ptr < buffer_size
    /\ CurSelf.total_size > buffer_size =>
           /\ \A i \in 1..NFields : CurSelf.ptr < Len(CurSelf.buffers[i])
           /\ CurSelf.ptr < CurSelf.size

\* overwriting insertions have taken the cursor of a buffer of capacity 2 or
\* more round to slot 0 again
C20_Witness ==
    /\ Bounded
    /\ buffer_size >= 2
    /\ lastop.branch = "overwrite"
    /\ ~lastop.raised
    /\ CurSelf.total_size = 2 * buffer_size
    /\ CurSelf.ptr = 0

====
